---- MODULE Spec2Model ----
(***************************************************************************)
(* Model of the Appium session manager (src/appium_manager.py) as it is    *)
(* driven by the tool handlers of src/server.py.                           *)
(*                                                                         *)
(* Every tool handler is get_manager().<method>(...): one action below is  *)
(* one such handler, run to completion.  The remote Appium server is the   *)
(* environment: the outcome of every protocol call is an input of the      *)
(* action, drawn from BOOLEAN.                                             *)
(***************************************************************************)
EXTENDS Integers, Sequences, FiniteSets, TLC

VARIABLES
    fileConfig,   \* the document config/test_config.json holds
    manager,      \* _manager is not None
    config,       \* self.config of the singleton
    driver,       \* self.driver of the singleton: NoDriver, or a session id
    opened,       \* number of remote sessions created so far (ids 1..opened)
    discarded,    \* drivers held by instances the singleton no longer names
    everStarted,  \* some start_session handler has started a session (history)
    last,         \* the last handler run: name, driver at entry, result, calls
    streak,       \* how many times in a row that handler has now run (capped)
    threads       \* per calling thread: where it stands in the method it runs

vars == <<fileConfig, manager, config, driver, opened, discarded,
          everStarted, last, streak, threads>>

\* ------------------------------------------------------------------ bounds

MaxSessions == 3   \* remote sessions a behaviour may create
MaxStrLen == 3     \* length of the generated strategy / platform strings
MaxStreak == 3     \* consecutive runs of one handler that are told apart
MaxWindow == 3     \* largest width and height of the enumerated small windows

\* ----------------------------------------------------------------- strings
\* A string is a sequence of one-character strings, so that str.lower()
\* is computed character by character.

UpperLetters == <<"A","B","C","D","E","F","G","H","I","J","K","L","M",
                  "N","O","P","Q","R","S","T","U","V","W","X","Y","Z">>
LowerLetters == <<"a","b","c","d","e","f","g","h","i","j","k","l","m",
                  "n","o","p","q","r","s","t","u","v","w","x","y","z">>

ToLower == [c \in {UpperLetters[i] : i \in 1..26} |->
              LowerLetters[CHOOSE i \in 1..26 : UpperLetters[i] = c]]
ToUpper == [c \in {LowerLetters[i] : i \in 1..26} |->
              UpperLetters[CHOOSE i \in 1..26 : LowerLetters[i] = c]]

LowerChar(c) == IF c \in DOMAIN ToLower THEN ToLower[c] ELSE c
UpperChar(c) == IF c \in DOMAIN ToUpper THEN ToUpper[c] ELSE c

\* str.lower()
Lower(s) == [i \in 1..Len(s) |-> LowerChar(s[i])]

\* case variants used to build inputs
Upper(s) == [i \in 1..Len(s) |-> UpperChar(s[i])]
Capitalized(s) == [i \in 1..Len(s) |-> IF i = 1 THEN UpperChar(s[i]) ELSE s[i]]
Alternating(s) == [i \in 1..Len(s) |-> IF i % 2 = 0 THEN UpperChar(s[i]) ELSE s[i]]
CaseVariants(s) == {s, Upper(s), Capitalized(s), Alternating(s)}

\* all strings over alphabet A of length at most n
StringsUpTo(A, n) == UNION {[1..k -> A] : k \in 0..n}

S_android == <<"a","n","d","r","o","i","d">>
S_ios == <<"i","o","s">>

S_id == <<"i","d">>
S_xpath == <<"x","p","a","t","h">>
S_accessibility_id == <<"a","c","c","e","s","s","i","b","i","l","i","t","y","_","i","d">>
S_class_name == <<"c","l","a","s","s","_","n","a","m","e">>
S_android_uiautomator == <<"a","n","d","r","o","i","d","_","u","i","a","u","t","o","m","a","t","o","r">>
S_ios_predicate == <<"i","o","s","_","p","r","e","d","i","c","a","t","e">>
S_ios_class_chain == <<"i","o","s","_","c","l","a","s","s","_","c","h","a","i","n">>

\* ------------------------------------------------------- locator strategies

STRATEGY_MAP ==
    (S_id :> "AppiumBy.ID") @@
    (S_xpath :> "AppiumBy.XPATH") @@
    (S_accessibility_id :> "AppiumBy.ACCESSIBILITY_ID") @@
    (S_class_name :> "AppiumBy.CLASS_NAME") @@
    (S_android_uiautomator :> "AppiumBy.ANDROID_UIAUTOMATOR") @@
    (S_ios_predicate :> "AppiumBy.IOS_PREDICATE") @@
    (S_ios_class_chain :> "AppiumBy.IOS_CLASS_CHAIN")

\* dict.get(key, default)
DictGet(d, k, default) == IF k \in DOMAIN d THEN d[k] ELSE default

resolve_strategy_nolower(strategy) ==
    DictGet(STRATEGY_MAP, strategy, "AppiumBy.XPATH")

resolve_strategy(strategy) ==
    DictGet(STRATEGY_MAP, Lower(strategy), "AppiumBy.XPATH")

\* ----------------------------------------------------------- configuration
\* A JSON object is a function from its keys; a key the document leaves out
\* is not in the DOMAIN.  PyNone stands for JSON null / Python None.

PyNone == "<None>"
EmptyDict == [k \in {} |-> ""]

Truthy_not_none(v) == v # PyNone

\* Python truthiness of a configuration value
Truthy(v) == v \notin {PyNone, ""}

AndroidOptionalKeys == {"app_package", "app_activity", "app_path"}
IosOptionalKeys == {"bundle_id", "app_path"}

\* the non-empty value a configuration gives each key
SampleValue ==
    ("app_package" :> "com.example.app") @@
    ("app_activity" :> ".MainActivity") @@
    ("app_path" :> "/apps/example.bin") @@
    ("bundle_id" :> "com.example.ios") @@
    ("device_name" :> "Pixel 8") @@
    ("platform_version" :> "14")

\* every way a document can give (or leave out) the keys of Keys
Sections(Keys) ==
    UNION { { f \in [K -> {PyNone, ""} \cup {SampleValue[k] : k \in K}] :
                \A k \in K : f[k] \in {PyNone, "", SampleValue[k]} } :
            K \in SUBSET Keys }

DeviceParts ==
    { EmptyDict,
      ("device_name" :> SampleValue["device_name"]) @@
      ("platform_version" :> SampleValue["platform_version"]) }

AndroidSections == { d @@ o : d \in DeviceParts, o \in Sections(AndroidOptionalKeys) }
IosSections == { d @@ o : d \in DeviceParts, o \in Sections(IosOptionalKeys) }

AppiumSections == { EmptyDict, ("url" :> "http://farm:4723") }

MakeConfig(p, a, i, u) == [platform |-> p, android |-> a, ios |-> i, appium |-> u]

\* platform values that are neither android nor ios in any letter case
OtherPlatforms ==
    { <<>>, <<"w","i","n","d","o","w","s">>, <<"a","n","d","r","o","i","d","x">>,
      <<"i","o","s"," ">>, <<"i","-","o","s">>, <<"A","N","D","R","O","I">> }
    \cup { s \in StringsUpTo({"i", "O", "s"}, MaxStrLen) :
              Lower(s) \notin {S_android, S_ios} }

IosCaseStrings == { s \in StringsUpTo({"i", "I", "o", "O", "s", "S"}, 3) : Lower(s) = S_ios }

\* the documents the capability checks range over
AllConfigs ==
    { MakeConfig(p, a, EmptyDict, EmptyDict) :
        p \in CaseVariants(S_android), a \in AndroidSections }
    \cup
    { MakeConfig(p, EmptyDict, i, EmptyDict) :
        p \in CaseVariants(S_ios) \cup IosCaseStrings, i \in IosSections }
    \cup
    { MakeConfig(p, EmptyDict, EmptyDict, u) :
        p \in OtherPlatforms, u \in AppiumSections }

\* the documents the lifecycle checks range over
LifecycleConfigs ==
    { MakeConfig(S_android, ("app_package" :> "com.example.app"), EmptyDict, EmptyDict),
      MakeConfig(<<"i","O","S">>, EmptyDict,
                 ("bundle_id" :> "com.example.ios") @@ ("app_path" :> ""),
                 ("url" :> "http://farm:4723")),
      MakeConfig(<<"w","i","n","d","o","w","s">>, EmptyDict, EmptyDict, EmptyDict) }

\* load_config(): the parsed document
load_config(doc) == doc

\* ------------------------------------------------------------ capabilities

OptionalCap(section, key, cap) ==
    IF Truthy(DictGet(section, key, PyNone))
    THEN cap :> section[key]
    ELSE EmptyDict

AndroidCaps(acfg) ==
    ("platformName" :> "Android") @@
    ("appium:automationName" :> "UiAutomator2") @@
    ("appium:deviceName" :> DictGet(acfg, "device_name", "Android Emulator")) @@
    ("appium:platformVersion" :> DictGet(acfg, "platform_version", "16")) @@
    ("appium:newCommandTimeout" :> 3600) @@
    ("appium:noReset" :> TRUE) @@
    ("appium:autoGrantPermissions" :> TRUE) @@
    OptionalCap(acfg, "app_package", "appium:appPackage") @@
    OptionalCap(acfg, "app_activity", "appium:appActivity") @@
    OptionalCap(acfg, "app_path", "appium:app")

IosCaps(icfg) ==
    ("platformName" :> "iOS") @@
    ("appium:automationName" :> "XCUITest") @@
    ("appium:deviceName" :> DictGet(icfg, "device_name", "iPhone 15")) @@
    ("appium:platformVersion" :> DictGet(icfg, "platform_version", "17.0")) @@
    ("appium:newCommandTimeout" :> 3600) @@
    ("appium:noReset" :> TRUE) @@
    ("appium:autoAcceptAlerts" :> TRUE) @@
    OptionalCap(icfg, "bundle_id", "appium:bundleId") @@
    OptionalCap(icfg, "app_path", "appium:app")

\* _caps_to_options(caps): the options class, and every capability but
\* platformName set on it under its own key
caps_to_options(caps) ==
    [ options |-> IF caps["platformName"] = "Android"
                  THEN "UiAutomator2Options" ELSE "XCUITestOptions",
      capabilities |-> [k \in DOMAIN caps \ {"platformName"} |-> caps[k]] ]

AppiumUrl(cfg) == DictGet(cfg.appium, "url", "http://localhost:4723")

\* ------------------------------------------------ results and protocol calls

NoDriver == 0
NoConfig == EmptyDict

Ret(v) == [raised |-> FALSE, what |-> v]
Raise(e) == [raised |-> TRUE, what |-> e]

\* one call made to the protocol client: its name, the session it is made
\* on (for webdriver.Remote, the session it creates), whether it succeeded,
\* self.driver at the time of the call, and its arguments (for the
\* get_window_size of swipe, the size the server answers with)
Call(name, on, ok, held, args) ==
    [call |-> name, on |-> on, ok |-> ok, held |-> held, args |-> args]

\* what a method leaves behind: self.driver, the sessions created so far,
\* the value returned or the exception raised, and the calls it made
Outcome(drv, opn, res, calls) ==
    [driver |-> drv, opened |-> opn, result |-> res, calls |-> calls]

\* ---------------------------------------------------------- start_session

PlatformOf_verbatim(cfg) == cfg.platform

\* platform = cfg["platform"].lower()
PlatformOf(cfg) == Lower(cfg.platform)

\* the capability dict built for a supported platform
BuildCaps(cfg) ==
    IF PlatformOf(cfg) = S_android THEN AndroidCaps(cfg.android)
    ELSE IosCaps(cfg.ios)

Connect_half_open(drv, cfg, opn, connectOk) ==
    LET c == Call("webdriver.Remote",
                  IF connectOk THEN opn + 1 ELSE NoDriver, connectOk, drv,
                  [url |-> AppiumUrl(cfg), options |-> caps_to_options(BuildCaps(cfg))])
    IN  IF connectOk
        THEN Outcome(opn + 1, opn + 1, Ret("Session started"), <<c>>)
        ELSE Outcome(opn + 1, opn + 1, Raise("WebDriverException: new session"), <<c>>)

\* self.driver = webdriver.Remote(appium_url, options=_caps_to_options(caps))
Connect(drv, cfg, opn, connectOk) ==
    LET c == Call("webdriver.Remote",
                  IF connectOk THEN opn + 1 ELSE NoDriver, connectOk, drv,
                  [url |-> AppiumUrl(cfg), options |-> caps_to_options(BuildCaps(cfg))])
    IN  IF connectOk
        THEN Outcome(opn + 1, opn + 1, Ret("Session started"), <<c>>)
        ELSE Outcome(drv, opn, Raise("WebDriverException: new session"), <<c>>)

start_session_unguarded(drv, cfg, opn, connectOk) ==
    IF PlatformOf(cfg) \notin {S_android, S_ios}
    THEN Outcome(drv, opn, Raise("ValueError: Unsupported platform"), <<>>)
    ELSE Connect(drv, cfg, opn, connectOk)

start_session(drv, cfg, opn, connectOk) ==
    IF drv # NoDriver
    THEN Outcome(drv, opn, Ret("Session already active"), <<>>)
    ELSE IF PlatformOf(cfg) \notin {S_android, S_ios}
    THEN Outcome(drv, opn, Raise("ValueError: Unsupported platform"), <<>>)
    ELSE Connect(drv, cfg, opn, connectOk)

\* ---------------------------------------------------------- close_session
\* The outcome also says whether the module-level _manager still names the
\* instance.

CloseOutcome(drv, keep, res, calls) ==
    [driver |-> drv, manager |-> keep, result |-> res, calls |-> calls]

close_session_keeps_driver(drv, quitOk) ==
    IF drv # NoDriver
    THEN CloseOutcome(drv, FALSE, Ret("Session closed"),
                      <<Call("quit", drv, quitOk, drv, <<>>)>>)
    ELSE CloseOutcome(drv, FALSE, Ret("Session closed"), <<>>)

close_session_unguarded(drv, quitOk) ==
    LET q == Call("quit", drv, quitOk /\ drv # NoDriver, drv, <<>>)
    IN  IF q.ok
        THEN CloseOutcome(NoDriver, FALSE, Ret("Session closed"), <<q>>)
        ELSE CloseOutcome(drv, TRUE, Raise("WebDriverException: quit"), <<q>>)

close_session(drv, quitOk) ==
    IF drv # NoDriver
    THEN LET q == Call("quit", drv, quitOk, drv, <<>>)
         IN  IF quitOk
             THEN CloseOutcome(NoDriver, FALSE, Ret("Session closed"), <<q>>)
             ELSE CloseOutcome(drv, TRUE, Raise("WebDriverException: quit"), <<q>>)
    ELSE CloseOutcome(drv, FALSE, Ret("Session closed"), <<>>)

\* ------------------------------------------------------- the liveness gate

\* the environment of one handler: the outcome of the liveness probe, of
\* quitting the stale session, of opening a new one, and of the first and
\* second protocol call of the action.  A call that is not reached has no
\* outcome: the probe succeeding leaves no quit and no connect, a failed
\* connect or a failed first call leaves no later call; such outcomes are
\* fixed to TRUE so that each course of events is drawn once.
Envs ==
    { e \in [probe : BOOLEAN, quit : BOOLEAN, connect : BOOLEAN,
             a1 : BOOLEAN, a2 : BOOLEAN] :
        /\ e.probe => (e.quit /\ e.connect)
        /\ ~e.connect => (e.a1 /\ e.a2)
        /\ ~e.a1 => e.a2 }

is_session_alive_never(drv, probeOk) ==
    IF drv = NoDriver
    THEN [alive |-> FALSE, calls |-> <<>>]
    ELSE [alive |-> FALSE,
          calls |-> <<Call("get_window_size", drv, probeOk, drv, <<>>)>>]

\* _is_session_alive(): any exception of the probe is "not alive"
is_session_alive(drv, probeOk) ==
    IF drv = NoDriver
    THEN [alive |-> FALSE, calls |-> <<>>]
    ELSE [alive |-> probeOk,
          calls |-> <<Call("get_window_size", drv, probeOk, drv, <<>>)>>]

\* the branch of _ensure_driver taken when the probe fails
Reconnect_twice(drv, cfg, opn, env) ==
    LET q == Call("quit", drv, env.quit, drv, <<>>)
        s == start_session(NoDriver, cfg, opn, env.connect)
        t == start_session(NoDriver, cfg, opn, env.connect)
    IN  IF s.result.raised
        THEN Outcome(t.driver, t.opened, t.result, <<q>> \o s.calls \o t.calls)
        ELSE Outcome(s.driver, s.opened, s.result, <<q>> \o s.calls)

Reconnect_quit_raises(drv, cfg, opn, env) ==
    LET q == Call("quit", drv, env.quit, drv, <<>>)
        s == start_session(NoDriver, cfg, opn, env.connect)
    IN  IF env.quit
        THEN Outcome(s.driver, s.opened, s.result, <<q>> \o s.calls)
        ELSE Outcome(drv, opn, Raise("WebDriverException: quit"), <<q>>)

Reconnect_restore(drv, cfg, opn, env) ==
    LET q == Call("quit", drv, env.quit, drv, <<>>)
        s == start_session(NoDriver, cfg, opn, env.connect)
    IN  IF s.result.raised
        THEN Outcome(drv, s.opened, s.result, <<q>> \o s.calls)
        ELSE Outcome(s.driver, s.opened, s.result, <<q>> \o s.calls)

Reconnect_keep(drv, cfg, opn, env) ==
    LET q == Call("quit", drv, env.quit, drv, <<>>)
        s == start_session(drv, cfg, opn, env.connect)
    IN  Outcome(s.driver, s.opened, s.result, <<q>> \o s.calls)

Reconnect(drv, cfg, opn, env) ==
    LET q == Call("quit", drv, env.quit, drv, <<>>)
        s == start_session(NoDriver, cfg, opn, env.connect)
    IN  Outcome(s.driver, s.opened, s.result, <<q>> \o s.calls)

ensure_driver_autostart(drv, cfg, opn, env) ==
    LET s == start_session(drv, cfg, opn, env.connect)
    IN  Outcome(s.driver, s.opened,
                IF s.result.raised THEN s.result ELSE Ret("driver"), s.calls)

\* _ensure_driver(): the handle the action is to use, or the exception
ensure_driver(drv, cfg, opn, env) ==
    IF drv = NoDriver
    THEN Outcome(drv, opn, Raise("RuntimeError: No active session"), <<>>)
    ELSE LET p == is_session_alive(drv, env.probe)
         IN  IF p.alive
             THEN Outcome(drv, opn, Ret("driver"), p.calls)
             ELSE LET r == Reconnect(drv, cfg, opn, env)
                  IN  Outcome(r.driver, r.opened,
                              IF r.result.raised THEN r.result ELSE Ret("driver"),
                              p.calls \o r.calls)

\* ------------------------------------------------------------ the actions

ActionOps == {"take_screenshot", "get_page_source", "tap", "tap_coordinates",
              "type_text", "clear_text", "swipe", "press_back", "press_home",
              "hide_keyboard"}

ValidDirections == {"up", "down", "left", "right"}

Int08_rounded(n) == (n * 8 + 5) \div 10

\* int(n * 0.8) and int(n * 0.2) for a window dimension n >= 0
Int08(n) == (n * 8) \div 10
Int02(n) == (n * 2) \div 10

\* the arguments swipe() passes to driver.swipe for a valid direction
SwipeGesture(direction, w, h, duration) ==
    CASE direction = "up" ->
           <<w \div 2, Int08(h), w \div 2, Int02(h), duration>>
      [] direction = "down" ->
           <<w \div 2, Int02(h), w \div 2, Int08(h), duration>>
      [] direction = "left" ->
           <<Int08(w), h \div 2, Int02(w), h \div 2, duration>>
      [] direction = "right" ->
           <<Int02(w), h \div 2, Int08(w), h \div 2, duration>>

Step(name, args) == [name |-> name, args |-> args]

FindElement(a) ==
    Step("find_element", [by |-> resolve_strategy(a.strategy), value |-> a.value])

\* the protocol calls an action makes on the handle the gate returned, in order
ActionCalls(op, a, size) ==
    CASE op = "take_screenshot" -> <<Step("get_screenshot_as_base64", <<>>)>>
      [] op = "get_page_source" -> <<Step("page_source", <<>>)>>
      [] op = "tap" -> <<FindElement(a), Step("click", <<>>)>>
      [] op = "tap_coordinates" -> <<Step("tap", <<a.x, a.y>>)>>
      [] op = "type_text" -> <<FindElement(a), Step("send_keys", a.text)>>
      [] op = "clear_text" -> <<FindElement(a), Step("clear", <<>>)>>
      [] op = "swipe" ->
           <<Step("get_window_size", size)>> \o
           (IF a.direction \in ValidDirections
            THEN <<Step("swipe", SwipeGesture(a.direction, size.width,
                                              size.height, a.duration))>>
            ELSE <<>>)
      [] op = "press_back" -> <<Step("back", <<>>)>>
      [] op = "press_home" -> <<Step("press_keycode", 3)>>
      [] op = "hide_keyboard" -> <<Step("hide_keyboard", <<>>)>>

StatusOf(op) ==
    CASE op = "take_screenshot" -> "png bytes"
      [] op = "get_page_source" -> "page source"
      [] op = "tap" -> "Tapped element"
      [] op = "tap_coordinates" -> "Tapped at"
      [] op = "type_text" -> "Typed"
      [] op = "clear_text" -> "Cleared text"
      [] op = "swipe" -> "Swiped"
      [] op = "press_back" -> "Pressed back"
      [] op = "press_home" -> "Pressed home"
      [] op = "hide_keyboard" -> "Keyboard hidden (or was not visible)"

RunCalls_all(h, steps, oks) ==
    [calls |-> [i \in 1..Len(steps) |->
                  Call(steps[i].name, h, oks[i], h, steps[i].args)],
     failed |-> \E i \in 1..Len(steps) : ~oks[i]]

\* the calls of steps made on handle h until the first one that raises
RunCalls(h, steps, oks) ==
    LET fails == {i \in 1..Len(steps) : ~oks[i]}
        stop == IF fails = {} THEN Len(steps)
                ELSE CHOOSE i \in fails : \A j \in fails : i <= j
    IN  [calls |-> [i \in 1..stop |->
                      Call(steps[i].name, h, oks[i], h, steps[i].args)],
         failed |-> fails # {}]

Body_hide_propagates(op, a, h, env, size) ==
    LET r == RunCalls(h, ActionCalls(op, a, size), <<env.a1, env.a2>>)
    IN  [calls |-> r.calls,
         result |->
           IF r.failed THEN Raise("WebDriverException")
           ELSE IF op = "swipe" /\ a.direction \notin ValidDirections
           THEN Raise("ValueError: Invalid direction")
           ELSE Ret(StatusOf(op))]

Body_swipe_unchecked(op, a, h, env, size) ==
    LET r == RunCalls(h, ActionCalls(op, a, size), <<env.a1, env.a2>>)
    IN  [calls |-> r.calls,
         result |->
           IF op = "hide_keyboard" THEN Ret(StatusOf(op))
           ELSE IF r.failed THEN Raise("WebDriverException")
           ELSE Ret(StatusOf(op))]

\* the part of an action method after driver = self._ensure_driver()
Body(op, a, h, env, size) ==
    LET r == RunCalls(h, ActionCalls(op, a, size), <<env.a1, env.a2>>)
    IN  [calls |-> r.calls,
         result |->
           IF op = "hide_keyboard" THEN Ret(StatusOf(op))
           ELSE IF r.failed THEN Raise("WebDriverException")
           ELSE IF op = "swipe" /\ a.direction \notin ValidDirections
           THEN Raise("ValueError: Invalid direction")
           ELSE Ret(StatusOf(op))]

run_action_stale(op, a, drv, cfg, opn, env, size) ==
    LET g == ensure_driver(drv, cfg, opn, env)
    IN  IF g.result.raised
        THEN [driver |-> g.driver, opened |-> g.opened, result |-> g.result,
              calls |-> g.calls, gate |-> Len(g.calls)]
        ELSE LET b == Body(op, a, drv, env, size)
             IN  [driver |-> g.driver, opened |-> g.opened, result |-> b.result,
                  calls |-> g.calls \o b.calls, gate |-> Len(g.calls)]

\* an action method: the gate, then the body on the handle the gate returned;
\* gate is the number of calls the gate made
run_action(op, a, drv, cfg, opn, env, size) ==
    LET g == ensure_driver(drv, cfg, opn, env)
    IN  IF g.result.raised
        THEN [driver |-> g.driver, opened |-> g.opened, result |-> g.result,
              calls |-> g.calls, gate |-> Len(g.calls)]
        ELSE LET b == Body(op, a, g.driver, env, size)
             IN  [driver |-> g.driver, opened |-> g.opened, result |-> b.result,
                  calls |-> g.calls \o b.calls, gate |-> Len(g.calls)]

\* ------------------------------------------------------------------ inputs

NoArgs == <<>>
LifecycleStrategies == {Upper(S_id), <<"c","s","s">>}
LocatorValues == {"login"}
Texts == {"hello"}
Points == {[x |-> 10, y |-> 20]}
Directions == ValidDirections \cup {"UP", "diagonal", ""}
LifecycleDirections == {"up", "left", "diagonal"}
Durations == {800}
WindowSizes == {[width |-> 1080, height |-> 1920], [width |-> 7, height |-> 9]}
SmallWindows == {[width |-> w, height |-> h] : w \in 0..MaxWindow, h \in 0..MaxWindow}
\* durations a caller of AppiumManager.swipe passes (800 when it passes none)
SwipeDurations == {800, 250}
DefaultSize == [width |-> 1080, height |-> 1920]

\* strategy names handed to the locator resolver
StrategyNames == {S_id, S_xpath, S_accessibility_id, S_class_name,
                  S_android_uiautomator, S_ios_predicate, S_ios_class_chain}

AllStrategies ==
    UNION {CaseVariants(n) : n \in StrategyNames}
    \cup StringsUpTo({"i", "D"}, MaxStrLen)
    \cup { <<"c","s","s">>, <<"n","a","m","e">>, <<" ","i","d">>,
           <<"x","p","a","t","h","s">>, <<"c","l","a","s","s","n","a","m","e">>,
           <<"a","c","c","e","s","s","i","b","i","l","i","t","y"," ","i","d">> }

\* ----------------------------------------------------------------- handlers

\* get_manager(): the singleton, created (and the configuration loaded) when
\* _manager is None
get_manager ==
    IF manager
    THEN [driver |-> driver, config |-> config]
    ELSE [driver |-> NoDriver, config |-> load_config(fileConfig)]

Record(op, a, entry, out, gate) ==
    /\ last' = [op |-> op, args |-> a, entry |-> entry, result |-> out.result,
                calls |-> out.calls, gate |-> gate]
    /\ streak' = IF last.op # op THEN 1
                  ELSE IF streak < MaxStreak THEN streak + 1 ELSE streak

\* server.start_session
StartSessionTool ==
    \E connectOk \in BOOLEAN :
        LET m == get_manager
            out == start_session(m.driver, m.config, opened, connectOk)
        IN  /\ out.opened <= MaxSessions
            /\ manager' = TRUE
            /\ config' = m.config
            /\ driver' = out.driver
            /\ opened' = out.opened
            /\ everStarted' = (everStarted \/ out.result = Ret("Session started"))
            /\ Record("start_session", NoArgs, m.driver, out, 0)
            /\ UNCHANGED <<fileConfig, discarded, threads>>

\* server.close_session
CloseSessionTool ==
    \E quitOk \in BOOLEAN :
        LET m == get_manager
            out == close_session(m.driver, quitOk)
        IN  /\ manager' = out.manager
            /\ config' = IF out.manager THEN m.config ELSE NoConfig
            /\ driver' = IF out.manager THEN out.driver ELSE NoDriver
            /\ discarded' = IF ~out.manager /\ out.driver # NoDriver
                            THEN discarded \cup {out.driver} ELSE discarded
            /\ Record("close_session", NoArgs, m.driver, out, 0)
            /\ UNCHANGED <<fileConfig, opened, everStarted, threads>>

\* a handler of server.py that calls an action method of the manager
ActionTool(op, a, size, envs) ==
    \E env \in envs :
        LET m == get_manager
            out == run_action(op, a, m.driver, m.config, opened, env, size)
        IN  /\ out.opened <= MaxSessions
            /\ manager' = TRUE
            /\ config' = m.config
            /\ driver' = out.driver
            /\ opened' = out.opened
            /\ Record(op, a, m.driver, out, out.gate)
            /\ UNCHANGED <<fileConfig, discarded, everStarted, threads>>

QueryTool ==
    \E op \in {"take_screenshot", "get_page_source"} :
        ActionTool(op, NoArgs, DefaultSize, Envs)

ElementArgs(op, strategy, value, text) ==
    IF op = "type_text"
    THEN [strategy |-> strategy, value |-> value, text |-> text]
    ELSE [strategy |-> strategy, value |-> value]

ElementTool(strategies, envs) ==
    \E op \in {"tap", "type_text", "clear_text"}, st \in strategies,
       v \in LocatorValues, t \in Texts :
        ActionTool(op, ElementArgs(op, st, v, t), DefaultSize, envs)

TapCoordinatesTool ==
    \E pt \in Points : ActionTool("tap_coordinates", pt, DefaultSize, Envs)

SwipeTool(directions, sizes, durations, envs) ==
    \E d \in directions, du \in durations, size \in sizes :
        ActionTool("swipe", [direction |-> d, duration |-> du], size, envs)

ButtonTool ==
    \E op \in {"press_back", "press_home"} : ActionTool(op, NoArgs, DefaultSize, Envs)

HideKeyboardTool == ActionTool("hide_keyboard", NoArgs, DefaultSize, Envs)

\* ------------------------------------------------- handlers run by threads
\* The methods of the singleton run by several threads, one statement of
\* appium_manager.py per step; no statement of the module takes a lock, so a
\* step of one thread may follow any step of another.  pc names the statement
\* the thread is to run next, op the handler it is in, h the session its
\* webdriver.Remote call returned and has not yet stored.

Threads == {1, 2}

ThreadOps == {"start_session", "press_back"}

Idle == [pc |-> "idle", op |-> "none", h |-> NoDriver]

Goto(t, pc) == threads' = [threads EXCEPT ![t].pc = pc]

Return(t) == threads' = [threads EXCEPT ![t] = Idle]

\* the handler is entered: get_manager(), then the first statement of the
\* method
T_Call(t) ==
    /\ threads[t].pc = "idle"
    /\ \E op \in ThreadOps :
           LET m == get_manager
           IN  /\ manager' = TRUE
               /\ config' = m.config
               /\ driver' = m.driver
               /\ threads' = [threads EXCEPT ![t] =
                     [pc |-> IF op = "start_session" THEN "start" ELSE "gate",
                      op |-> op, h |-> NoDriver]]
    /\ UNCHANGED <<fileConfig, opened, discarded, everStarted, last, streak>>

\* start_session up to the capabilities: "already active" when a handle is
\* held (and then, inside _ensure_driver, on to return self.driver), the
\* ValueError on an unsupported platform
T_StartCheck(t) ==
    /\ threads[t].pc = "start"
    /\ IF driver # NoDriver
       THEN IF threads[t].op = "start_session" THEN Return(t) ELSE Goto(t, "body")
       ELSE IF PlatformOf(config) \notin {S_android, S_ios}
       THEN Return(t)
       ELSE Goto(t, "connect")
    /\ UNCHANGED <<fileConfig, manager, config, driver, opened, discarded,
                   everStarted, last, streak>>

\* webdriver.Remote(appium_url, options=...): the server opens a session, or
\* the call raises
T_Connect(t) ==
    /\ threads[t].pc = "connect"
    /\ \E connectOk \in BOOLEAN :
           LET c == Connect(NoDriver, config, opened, connectOk)
           IN  /\ c.opened <= MaxSessions
               /\ opened' = c.opened
               /\ IF connectOk
                  THEN threads' = [threads EXCEPT ![t].pc = "assign",
                                                  ![t].h = c.driver]
                  ELSE Return(t)
    /\ UNCHANGED <<fileConfig, manager, config, driver, discarded,
                   everStarted, last, streak>>

\* self.driver = <the session webdriver.Remote returned>
T_Assign(t) ==
    /\ threads[t].pc = "assign"
    /\ driver' = threads[t].h
    /\ everStarted' = (everStarted \/ threads[t].op = "start_session")
    /\ IF threads[t].op = "start_session" THEN Return(t)
       ELSE threads' = [threads EXCEPT ![t].pc = "body", ![t].h = NoDriver]
    /\ UNCHANGED <<fileConfig, manager, config, opened, discarded, last, streak>>

\* _ensure_driver: if self.driver is None: raise RuntimeError
T_GateCheck(t) ==
    /\ threads[t].pc = "gate"
    /\ IF driver = NoDriver THEN Return(t) ELSE Goto(t, "probe")
    /\ UNCHANGED <<fileConfig, manager, config, driver, opened, discarded,
                   everStarted, last, streak>>

\* _is_session_alive(): False with no handle, else the probe on self.driver
T_Probe(t) ==
    /\ threads[t].pc = "probe"
    /\ \E probeOk \in BOOLEAN :
           IF is_session_alive(driver, probeOk).alive
           THEN Goto(t, "body")
           ELSE Goto(t, "quit")
    /\ UNCHANGED <<fileConfig, manager, config, driver, opened, discarded,
                   everStarted, last, streak>>

\* try: self.driver.quit() except Exception: pass; whatever self.driver is
\* by now, the statement leaves the manager as it was
T_Quit(t) ==
    /\ threads[t].pc = "quit"
    /\ Goto(t, "clear")
    /\ UNCHANGED <<fileConfig, manager, config, driver, opened, discarded,
                   everStarted, last, streak>>

\* self.driver = None, then self.start_session()
T_Clear(t) ==
    /\ threads[t].pc = "clear"
    /\ driver' = NoDriver
    /\ Goto(t, "start")
    /\ UNCHANGED <<fileConfig, manager, config, opened, discarded,
                   everStarted, last, streak>>

\* return self.driver, and the action's call on what was returned
T_Body(t) ==
    /\ threads[t].pc = "body"
    /\ Return(t)
    /\ UNCHANGED <<fileConfig, manager, config, driver, opened, discarded,
                   everStarted, last, streak>>

\* ---------------------------------------------------------- specifications

InitWith(configs) ==
    /\ fileConfig \in configs
    /\ manager = FALSE
    /\ config = NoConfig
    /\ driver = NoDriver
    /\ opened = 0
    /\ discarded = {}
    /\ everStarted = FALSE
    /\ last = [op |-> "none", args |-> NoArgs, entry |-> NoDriver,
               result |-> Ret("none"), calls |-> <<>>, gate |-> 0]
    /\ streak = 0
    /\ threads = [t \in Threads |-> Idle]

\* the session lifecycle under every handler
Init == InitWith(LifecycleConfigs)

Next ==
    \/ StartSessionTool
    \/ CloseSessionTool
    \/ QueryTool
    \/ ElementTool(LifecycleStrategies, Envs)
    \/ TapCoordinatesTool
    \/ SwipeTool(LifecycleDirections, {DefaultSize}, Durations, Envs)
    \/ ButtonTool
    \/ HideKeyboardTool

Spec == Init /\ [][Next]_vars

\* session start over every configuration document
InitConfig == InitWith(AllConfigs)

NextConfig == StartSessionTool \/ CloseSessionTool

SpecConfig == InitConfig /\ [][NextConfig]_vars

\* the element actions over every strategy string, on a session that
\* answers the liveness probe
LiveEnvs == {e \in Envs : e.probe}

InitResolve ==
    InitWith({c \in LifecycleConfigs : c.platform = S_android})

NextResolve == StartSessionTool \/ ElementTool(AllStrategies, LiveEnvs)

SpecResolve == InitResolve /\ [][NextResolve]_vars

\* swipe over every direction, window size and duration, on a session that
\* answers the liveness probe
InitSwipe ==
    InitWith({c \in LifecycleConfigs : c.platform = S_android})

NextSwipe ==
    \/ StartSessionTool
    \/ SwipeTool(Directions, WindowSizes \cup SmallWindows, SwipeDurations,
                 LiveEnvs)

SpecSwipe == InitSwipe /\ [][NextSwipe]_vars

\* start_session and an action called from two threads
InitThreads == InitWith(LifecycleConfigs)

NextThreads ==
    \E t \in Threads :
        \/ T_Call(t)
        \/ T_StartCheck(t)
        \/ T_Connect(t)
        \/ T_Assign(t)
        \/ T_GateCheck(t)
        \/ T_Probe(t)
        \/ T_Quit(t)
        \/ T_Clear(t)
        \/ T_Body(t)

SpecThreads == InitThreads /\ [][NextThreads]_vars

\* ------------------------------------------------- reading the last handler

NumCalls == Len(last.calls)
RemoteCalls == {i \in 1..NumCalls : last.calls[i].call = "webdriver.Remote"}
\* the calls the action made after the gate returned
ActionCallIdx == (last.gate + 1)..NumCalls
IsAction == last.op \in ActionOps
\* the handler found a handle and the liveness probe on it failed
ProbeFailed ==
    /\ IsAction
    /\ last.entry # NoDriver
    /\ NumCalls >= 1
    /\ last.calls[1].call = "get_window_size"
    /\ ~last.calls[1].ok
\* the server refused no session the handler asked for
ServerAccepts == \A i \in RemoteCalls : last.calls[i].ok

\* ------------------------------------------------------------------ claims

\* C1: start_session called while a session handle is held returns the
\* "already active" result, makes no call to the server (no capability
\* negotiation) and leaves the held handle unchanged, however many times it
\* is repeated.
C1_StartWhileActiveIsNoOp ==
    (last.op = "start_session" /\ last.entry # NoDriver) =>
        /\ last.result = Ret("Session already active")
        /\ NumCalls = 0
        /\ driver = last.entry

C1_Witness ==
    /\ last.op = "start_session"
    /\ last.entry # NoDriver
    /\ streak >= 3
    /\ driver = last.entry

\* C2, as stated: when the probe of a held handle fails at an action call and
\* the server accepts a new session, the action call succeeds, exactly one
\* capability negotiation is made and the action's calls go to the new handle.
C2_RecoveredCallSucceeds ==
    (ProbeFailed /\ ServerAccepts) =>
        /\ ~last.result.raised
        /\ Cardinality(RemoteCalls) = 1
        /\ ActionCallIdx # {}
        /\ \A i \in ActionCallIdx :
               last.calls[i].on = driver /\ last.calls[i].on # last.entry

\* C2, amended: under the same conditions exactly one capability negotiation
\* is made, the handle held afterwards is the new one, and every call of the
\* action goes to the new handle, never to the stale one; the call raises
\* only if one of the action's own calls fails (hide_keyboard swallows that)
\* or swipe is given an invalid direction.
C2_RecoveryReconnectsOnce ==
    (ProbeFailed /\ ServerAccepts) =>
        /\ Cardinality(RemoteCalls) = 1
        /\ driver # NoDriver /\ driver # last.entry
        /\ \A i \in RemoteCalls : last.calls[i].on = driver
        /\ ActionCallIdx # {}
        /\ \A i \in ActionCallIdx :
               last.calls[i].on = driver /\ last.calls[i].on # last.entry
        /\ last.result.raised <=>
             \/ last.op # "hide_keyboard" /\ \E i \in ActionCallIdx : ~last.calls[i].ok
             \/ last.op = "swipe" /\ last.args.direction \notin ValidDirections

C2_Witness ==
    /\ ProbeFailed
    /\ ServerAccepts
    /\ last.op = "tap"
    /\ ~last.result.raised
    /\ driver # last.entry

\* C3: one action call makes at most one attempt to open a new remote
\* session; if that attempt fails the session-start error reaches the caller
\* and the handler makes no further call.
C3_AtMostOneReconnect ==
    IsAction =>
        /\ Cardinality(RemoteCalls) <= 1
        /\ \A i \in RemoteCalls :
               ~last.calls[i].ok =>
                   /\ last.result = Raise("WebDriverException: new session")
                   /\ i = NumCalls

C3_Witness ==
    /\ ProbeFailed
    /\ NumCalls = 3
    /\ last.calls[3].call = "webdriver.Remote"
    /\ ~last.calls[3].ok
    /\ last.result.raised

\* C4: close_session on an active session swallows a failure to terminate the
\* remote session and in every case returns with no handle held.
C4_CloseIsBestEffort ==
    (last.op = "close_session" /\ last.entry # NoDriver) =>
        /\ ~last.result.raised
        /\ driver = NoDriver

\* C5: close_session with no session active makes no remote call, raises
\* nothing and leaves no session, also when repeated and before any
\* start_session.
C5_CloseWithoutSessionIsNoOp ==
    (last.op = "close_session" /\ last.entry = NoDriver) =>
        /\ NumCalls = 0
        /\ last.result = Ret("Session closed")
        /\ driver = NoDriver

C5_Witness ==
    /\ last.op = "close_session"
    /\ last.entry = NoDriver
    /\ streak >= 3
    /\ ~everStarted
    /\ ~last.result.raised

\* C6: every action called before any start_session has succeeded raises the
\* no-active-session error, makes no remote call and leaves no session.
C6_ActionBeforeStartFails ==
    (IsAction /\ ~everStarted) =>
        /\ last.result = Raise("RuntimeError: No active session")
        /\ NumCalls = 0
        /\ driver = NoDriver

C6_Witness ==
    /\ last.op = "swipe"
    /\ ~everStarted
    /\ last.result.raised
    /\ opened = 0

\* C7: at most one session handle is held: no instance dropped from the
\* singleton still holds one, and every remote session is opened while the
\* manager holds no handle.
C7_AtMostOneHandle ==
    /\ Cardinality(({driver} \ {NoDriver}) \cup discarded) <= 1
    /\ \A i \in RemoteCalls : last.calls[i].held = NoDriver

C7_Witness ==
    /\ ProbeFailed
    /\ opened >= 2
    /\ driver = opened
    /\ RemoteCalls # {}

\* the capabilities handed to webdriver.Remote by the last handler
SentCaps == last.calls[NumCalls].args.options.capabilities
StartNegotiated ==
    /\ last.op = "start_session"
    /\ NumCalls = 1
    /\ last.calls[1].call = "webdriver.Remote"

\* s and t are equal up to the case of their letters
SameIgnoringCase(s, t) ==
    /\ Len(s) = Len(t)
    /\ \A i \in 1..Len(s) : s[i] = t[i] \/ UpperChar(s[i]) = UpperChar(t[i])

\* the configuration gives key a non-empty value
Configured(section, key) ==
    key \in DOMAIN section /\ section[key] # "" /\ section[key] # PyNone

\* C8: for platform android or ios the capabilities sent at session start
\* hold the automation engine id, newCommandTimeout = 3600 and noReset =
\* true, and hold each optional key exactly when the configuration gives the
\* corresponding field a non-empty value.
C8_CapabilitiesBuilt ==
    StartNegotiated =>
        /\ "appium:automationName" \in DOMAIN SentCaps
        /\ "appium:newCommandTimeout" \in DOMAIN SentCaps
        /\ SentCaps["appium:newCommandTimeout"] = 3600
        /\ "appium:noReset" \in DOMAIN SentCaps
        /\ SentCaps["appium:noReset"] = TRUE
        /\ SameIgnoringCase(fileConfig.platform, S_android) =>
             /\ SentCaps["appium:automationName"] = "UiAutomator2"
             /\ "appium:appPackage" \in DOMAIN SentCaps
                  <=> Configured(fileConfig.android, "app_package")
             /\ "appium:appActivity" \in DOMAIN SentCaps
                  <=> Configured(fileConfig.android, "app_activity")
             /\ "appium:app" \in DOMAIN SentCaps
                  <=> Configured(fileConfig.android, "app_path")
             /\ "appium:bundleId" \notin DOMAIN SentCaps
        /\ SameIgnoringCase(fileConfig.platform, S_ios) =>
             /\ SentCaps["appium:automationName"] = "XCUITest"
             /\ "appium:bundleId" \in DOMAIN SentCaps
                  <=> Configured(fileConfig.ios, "bundle_id")
             /\ "appium:app" \in DOMAIN SentCaps
                  <=> Configured(fileConfig.ios, "app_path")
             /\ "appium:appPackage" \notin DOMAIN SentCaps
             /\ "appium:appActivity" \notin DOMAIN SentCaps

C8_Witness ==
    /\ StartNegotiated
    /\ fileConfig.platform = Upper(S_android)
    /\ Configured(fileConfig.android, "app_package")
    /\ "app_activity" \in DOMAIN fileConfig.android
    /\ fileConfig.android["app_activity"] = ""
    /\ "app_path" \notin DOMAIN fileConfig.android
    /\ DOMAIN SentCaps \cap {"appium:appPackage", "appium:appActivity", "appium:app"}
         = {"appium:appPackage"}

\* C9: start_session with no session held raises the unsupported-platform
\* error, and attempts no remote session, exactly when the configured
\* platform is neither android nor ios up to letter case; for every case
\* variant of android and ios it selects that platform.
C9_PlatformSelection ==
    (last.op = "start_session" /\ last.entry = NoDriver) =>
        LET android == SameIgnoringCase(fileConfig.platform, S_android)
            ios == SameIgnoringCase(fileConfig.platform, S_ios)
        IN  /\ (~android /\ ~ios) =>
                 /\ last.result = Raise("ValueError: Unsupported platform")
                 /\ NumCalls = 0
                 /\ driver = NoDriver
            /\ (android \/ ios) =>
                 /\ last.result # Raise("ValueError: Unsupported platform")
                 /\ StartNegotiated
                 /\ last.calls[1].args.options.options =
                      (IF android THEN "UiAutomator2Options" ELSE "XCUITestOptions")

C9_Witness ==
    /\ last.op = "start_session"
    /\ fileConfig.platform = <<"i","o","s"," ">>
    /\ last.result = Raise("ValueError: Unsupported platform")
    /\ NumCalls = 0

\* the native strategy each recognised name stands for
ExpectedNative ==
    << <<S_id, "AppiumBy.ID">>,
       <<S_xpath, "AppiumBy.XPATH">>,
       <<S_accessibility_id, "AppiumBy.ACCESSIBILITY_ID">>,
       <<S_class_name, "AppiumBy.CLASS_NAME">>,
       <<S_android_uiautomator, "AppiumBy.ANDROID_UIAUTOMATOR">>,
       <<S_ios_predicate, "AppiumBy.IOS_PREDICATE">>,
       <<S_ios_class_chain, "AppiumBy.IOS_CLASS_CHAIN">> >>

\* the last handler looked an element up
LookedUp ==
    /\ last.op \in {"tap", "type_text", "clear_text"}
    /\ ActionCallIdx # {}
    /\ last.calls[last.gate + 1].call = "find_element"
UsedStrategy == last.calls[last.gate + 1].args.by

\* C10: strategy resolution is total: each of the seven recognised names, in
\* any letter case, resolves to its own native strategy, and every other
\* string resolves to XPath.
C10_ResolveIsTotal ==
    LookedUp =>
        /\ \E k \in 1..7 : UsedStrategy = ExpectedNative[k][2]
        /\ \A k \in 1..7 :
               SameIgnoringCase(last.args.strategy, ExpectedNative[k][1])
                   => UsedStrategy = ExpectedNative[k][2]
        /\ (\A k \in 1..7 :
               ~SameIgnoringCase(last.args.strategy, ExpectedNative[k][1]))
                   => UsedStrategy = "AppiumBy.XPATH"

C10_Witness ==
    /\ LookedUp
    /\ last.args.strategy = Alternating(S_ios_class_chain)
    /\ UsedStrategy = "AppiumBy.IOS_CLASS_CHAIN"

\* the gate of the last action returned a handle
GatePassed ==
    /\ IsAction
    /\ last.result # Raise("RuntimeError: No active session")
    /\ last.result # Raise("WebDriverException: new session")
GestureCalls == {i \in 1..NumCalls : last.calls[i].call = "swipe"}
\* the action's own window-size query was answered
SizeAnswered ==
    /\ last.op = "swipe"
    /\ GatePassed
    /\ NumCalls > last.gate
    /\ last.calls[last.gate + 1].call = "get_window_size"
    /\ last.calls[last.gate + 1].ok
WindowOf == last.calls[last.gate + 1].args

\* x is n / 2, 0.8 n, 0.2 n truncated to an integer
IsHalf(x, n) == 2 * x <= n /\ n < 2 * x + 2
IsEightTenths(x, n) == 10 * x <= 8 * n /\ 8 * n < 10 * x + 10
IsTwoTenths(x, n) == 10 * x <= 2 * n /\ 2 * n < 10 * x + 10

\* C11: on a window of width w and height h a swipe in a valid direction
\* issues exactly one gesture, from (w/2, 0.8h) to (w/2, 0.2h) for up, the
\* reverse for down, from (0.8w, h/2) to (0.2w, h/2) for left and the reverse
\* for right, each coordinate truncated to an integer, with the caller's
\* duration.
C11_SwipeEndpoints ==
    (SizeAnswered /\ last.args.direction \in ValidDirections) =>
        LET w == WindowOf.width
            h == WindowOf.height
            d == last.args.direction
            g == last.calls[NumCalls].args
        IN  /\ Cardinality(GestureCalls) = 1
            /\ NumCalls = last.gate + 2
            /\ last.calls[NumCalls].call = "swipe"
            /\ last.calls[NumCalls].on = driver
            /\ g[5] = last.args.duration
            /\ d = "up" => /\ IsHalf(g[1], w) /\ IsEightTenths(g[2], h)
                           /\ IsHalf(g[3], w) /\ IsTwoTenths(g[4], h)
            /\ d = "down" => /\ IsHalf(g[1], w) /\ IsTwoTenths(g[2], h)
                             /\ IsHalf(g[3], w) /\ IsEightTenths(g[4], h)
            /\ d = "left" => /\ IsEightTenths(g[1], w) /\ IsHalf(g[2], h)
                             /\ IsTwoTenths(g[3], w) /\ IsHalf(g[4], h)
            /\ d = "right" => /\ IsTwoTenths(g[1], w) /\ IsHalf(g[2], h)
                              /\ IsEightTenths(g[3], w) /\ IsHalf(g[4], h)

C11_Witness ==
    /\ SizeAnswered
    /\ last.args.direction = "left"
    /\ WindowOf = [width |-> 7, height |-> 9]
    /\ NumCalls = last.gate + 2
    /\ last.calls[NumCalls].args = <<5, 4, 1, 4, 250>>
    /\ ~last.result.raised

\* C12, as stated: swipe with a direction other than up, down, left or right
\* fails with the invalid-direction error and issues no gesture.
C12_InvalidDirectionError ==
    (last.op = "swipe" /\ last.args.direction \notin {"up", "down", "left", "right"}) =>
        /\ last.result = Raise("ValueError: Invalid direction")
        /\ GestureCalls = {}

\* C12, amended: such a swipe always fails and issues no gesture; the error
\* is the invalid-direction error exactly when the gate returned a handle
\* and the window-size query that precedes the direction test was answered.
C12_InvalidDirectionFails ==
    (last.op = "swipe" /\ last.args.direction \notin {"up", "down", "left", "right"}) =>
        /\ last.result.raised
        /\ GestureCalls = {}
        /\ last.result = Raise("ValueError: Invalid direction") <=> SizeAnswered

C12_Witness ==
    /\ last.op = "swipe"
    /\ last.args.direction = "UP"
    /\ SizeAnswered
    /\ last.result = Raise("ValueError: Invalid direction")
    /\ NumCalls = last.gate + 1

\* C13: with a handle from the gate, hide_keyboard returns its status
\* whether the hide-keyboard call succeeds or fails, and the handle the gate
\* returned is still the one held.
C13_HideKeyboardSwallows ==
    (last.op = "hide_keyboard" /\ GatePassed) =>
        /\ last.result = Ret("Keyboard hidden (or was not visible)")
        /\ NumCalls = last.gate + 1
        /\ last.calls[NumCalls].call = "hide_keyboard"
        /\ driver = last.calls[NumCalls].on
        /\ last.calls[1].ok => driver = last.entry

C13_Witness ==
    /\ last.op = "hide_keyboard"
    /\ GatePassed
    /\ NumCalls = 2
    /\ last.calls[1].ok
    /\ ~last.calls[2].ok
    /\ ~last.result.raised
    /\ driver = last.entry

\* the handle of call i was, earlier in the same handler, answered for by
\* the liveness probe or created by the reconnect
PassedGate(i) ==
    \E j \in 1..last.gate :
        /\ j < i
        /\ last.calls[j].ok
        /\ last.calls[j].on = last.calls[i].on
        /\ last.calls[j].call \in {"get_window_size", "webdriver.Remote"}

\* C14: in every action the gate (presence check, liveness probe, reconnect
\* if needed) is over before the action's own calls, and each of those calls
\* is made on a handle that passed the gate in the same handler; an action
\* the gate refuses makes no call of its own.
C14_GateBeforeAction ==
    IsAction =>
        /\ \A i \in ActionCallIdx :
               /\ PassedGate(i)
               /\ last.calls[i].call \notin {"quit", "webdriver.Remote"}
        /\ \A j \in 1..last.gate :
               last.calls[j].call \in {"get_window_size", "quit", "webdriver.Remote"}
        /\ GatePassed => (last.gate >= 1 /\ ActionCallIdx # {})
        /\ ~GatePassed => ActionCallIdx = {}

C14_Witness ==
    /\ IsAction
    /\ last.op = "type_text"
    /\ last.gate = 3
    /\ NumCalls = 5
    /\ last.calls[5].on # last.entry

\* C15: when the liveness probe fails, the stale session's termination is
\* attempted and then, whatever its outcome, a new session is asked for;
\* neither the probe's failure nor the termination's reaches the caller: the
\* handler raises only if the new session is refused or the action itself
\* fails.
C15_RecoveryIsSilent ==
    ProbeFailed =>
        /\ NumCalls >= 3
        /\ last.gate = 3
        /\ last.calls[2].call = "quit"
        /\ last.calls[2].on = last.entry
        /\ last.calls[3].call = "webdriver.Remote"
        /\ last.result.raised =>
             \/ ~last.calls[3].ok
             \/ last.op # "hide_keyboard" /\ \E i \in ActionCallIdx : ~last.calls[i].ok
             \/ last.op = "swipe" /\ last.args.direction \notin ValidDirections

C15_Witness ==
    /\ ProbeFailed
    /\ NumCalls >= 4
    /\ ~last.calls[2].ok
    /\ last.calls[3].ok
    /\ ~last.result.raised

\* C17, as stated: every action, once the gate has returned a handle, makes
\* exactly one protocol call.
C17_ExactlyOneCall ==
    GatePassed => Cardinality(ActionCallIdx) = 1

SingleCallOps == {"take_screenshot", "get_page_source", "tap_coordinates",
                  "press_back", "press_home", "hide_keyboard"}
ElementOps == {"tap", "type_text", "clear_text"}
ElementCallOf(op) ==
    CASE op = "tap" -> "click"
      [] op = "type_text" -> "send_keys"
      [] op = "clear_text" -> "clear"

\* C17, amended: once the gate has returned a handle, every call of the
\* action is made on that handle; take_screenshot, get_page_source,
\* tap_coordinates, press_back, press_home and hide_keyboard make exactly one
\* call; tap, type_text and clear_text make an element lookup followed, if it
\* succeeds, by exactly one call on the element; swipe makes a window-size
\* query followed, if it succeeds and the direction is valid, by exactly one
\* gesture call.
C17_CallsPerAction ==
    GatePassed =>
        LET first == last.gate + 1
        IN  /\ NumCalls >= first
            /\ \A i \in ActionCallIdx : last.calls[i].on = driver
            /\ last.op \in SingleCallOps => NumCalls = first
            /\ last.op \in ElementOps =>
                 /\ last.calls[first].call = "find_element"
                 /\ IF last.calls[first].ok
                    THEN /\ NumCalls = first + 1
                         /\ last.calls[first + 1].call = ElementCallOf(last.op)
                    ELSE NumCalls = first
            /\ last.op = "swipe" =>
                 /\ last.calls[first].call = "get_window_size"
                 /\ IF last.calls[first].ok /\ last.args.direction \in ValidDirections
                    THEN /\ NumCalls = first + 1
                         /\ last.calls[first + 1].call = "swipe"
                    ELSE NumCalls = first

C17_Witness ==
    /\ GatePassed
    /\ last.op = "clear_text"
    /\ Cardinality(ActionCallIdx) = 2
    /\ last.calls[NumCalls].call = "clear"
    /\ ~last.result.raised

StartFailed ==
    /\ last.op = "start_session"
    /\ last.result.raised

\* C18: a start_session that fails (unsupported platform, or the server
\* refuses the session) leaves no handle held, and a start_session called
\* next does not answer "already active": on a supported platform it asks
\* the server for a session again, and holds the new handle if the server
\* grants it.
C18_FailedStartLeavesNoSession ==
    [][ /\ StartFailed' => (driver' = NoDriver /\ last'.entry = NoDriver)
        /\ (StartFailed /\ last'.op = "start_session") =>
             /\ last'.result # Ret("Session already active")
             /\ PlatformOf(config') \in {S_android, S_ios} =>
                  /\ Len(last'.calls) = 1
                  /\ last'.calls[1].call = "webdriver.Remote"
                  /\ last'.calls[1].ok =>
                       /\ last'.result = Ret("Session started")
                       /\ driver' = last'.calls[1].on
                       /\ driver' # NoDriver
             /\ PlatformOf(config') \notin {S_android, S_ios} =>
                  last'.result = Raise("ValueError: Unsupported platform")
      ]_vars

C18_Witness ==
    /\ last.op = "start_session"
    /\ streak >= 2
    /\ last.entry = NoDriver
    /\ NumCalls = 1
    /\ last.calls[1].ok
    /\ driver # NoDriver

\* the probe of the held handle failed and the server refused the new session
ReconnectFailed ==
    /\ ProbeFailed
    /\ \E i \in RemoteCalls : ~last.calls[i].ok

\* C19: a failed automatic reconnect leaves no handle held; while no handle
\* is held every action fails with the no-active-session error without any
\* call to the server, and a handle is held again only through a
\* start_session that succeeds.
C19_FailedReconnectLeavesNoSession ==
    [][ /\ ReconnectFailed' => driver' = NoDriver
        /\ (driver = NoDriver /\ last'.op \in ActionOps) =>
             /\ last'.result = Raise("RuntimeError: No active session")
             /\ Len(last'.calls) = 0
             /\ driver' = NoDriver
        /\ (driver = NoDriver /\ driver' # NoDriver) =>
             /\ last'.op = "start_session"
             /\ last'.result = Ret("Session started")
      ]_vars

C19_Witness ==
    /\ ReconnectFailed
    /\ last.op = "press_back"
    /\ ~last.calls[2].ok
    /\ driver = NoDriver
    /\ last.entry # NoDriver

\* the handler found a handle and the liveness probe on it succeeded
ProbeSucceeded ==
    /\ IsAction
    /\ last.entry # NoDriver
    /\ NumCalls >= 1
    /\ last.calls[1].call = "get_window_size"
    /\ last.calls[1].ok

\* C20: when the liveness probe succeeds the action leaves the lifecycle
\* untouched, whether its own call succeeds or fails: the handle held after
\* the call is the one held before, the gate made the probe only, and the
\* handler neither quit a session nor asked for a new one.
C20_LiveProbeLeavesLifecycle ==
    ProbeSucceeded =>
        /\ driver = last.entry
        /\ last.gate = 1
        /\ \A i \in 1..NumCalls :
               /\ last.calls[i].call \notin {"quit", "webdriver.Remote"}
               /\ last.calls[i].on = last.entry

C20_Witness ==
    /\ ProbeSucceeded
    /\ last.op = "get_page_source"
    /\ NumCalls = 2
    /\ ~last.calls[2].ok
    /\ last.result.raised
    /\ driver = last.entry

\* the threads that are inside a handler
InProgress == {t \in Threads : threads[t].pc # "idle"}

\* C16: handlers called from several threads run one at a time, so that
\* whenever a thread has had the server open a session and is about to store
\* it, no other handler is in progress and the manager holds no session: two
\* concurrent start_session calls, or two concurrent recoveries, do not open
\* two remote sessions.
C16_Serialized ==
    \A t \in Threads :
        threads[t].pc = "assign" =>
            /\ InProgress = {t}
            /\ driver = NoDriver

====
